---- MODULE Spec2Model ----
\* A model of github-to-sqlite's ingestion engine:
\*   - the paginated fetcher and its retry transport (utils.paginate and the
\*     fetch_x generators built on it, consumed by the save_x functions),
\*   - the entity normalizer (utils.save_user, save_repo, save_issues, ...)
\*     over a store of keyed tables with sqlite-utils' insert / replace /
\*     upsert semantics,
\*   - the workflow decomposer (utils.save_workflow),
\*   - the schema maintainer (utils.ensure_db_shape) and the commands and
\*     savers that look rows up before they write (cli.scrape_dependents,
\*     utils.save_issue_comment).
\*
\* Values.  Integer columns (ids, foreign keys) use 0 for NULL, text columns
\* use the string "None".  A payload key that is missing from the JSON object
\* is the string Absent, which differs from a key present with the value null.
EXTENDS Integers, Sequences, FiniteSets, TLC

\* ------------------------------------------------------------------ bounds
MaxPages == 2        \* longest next-link chain the server holds
MaxItems == 2        \* most items on one page
MaxOps == 3          \* most normalizer calls in one behaviour of SpecStore
MaxSentences == 7    \* most sentences in a document given to SimpleChunker
MaxTarget == 3       \* largest target_length of a SimpleChunker
MaxConns == 2        \* most store connections open in one process
MaxRuns == 2         \* most runs of the commits command on one store

\* ------------------------------------------------------- program constants
\* urllib3's Retry(total=10) default, used by Retry(...) in paginate
MaxRetries == 10

status_forcelist == {500, 502, 503, 504}

None == 0
NoneS == "None"
Absent == "<absent>"

Min(a, b) == IF a < b THEN a ELSE b

Max(S) == IF S = {} THEN 0 ELSE CHOOSE x \in S : \A y \in S : y <= x

\* f with key k bound to v (k added when new)
Put(f, k, v) == [x \in DOMAIN f \cup {k} |-> IF x = k THEN v ELSE f[x]]

\* f without the keys in K
Drop(f, K) == [x \in DOMAIN f \ K |-> f[x]]

EmptyTable == [x \in {} |-> 0]

\* ------------------------------------------------------------------- store
\* The tables the normalizer writes, each a function from primary key to row.
\* The link tables of m2m are sets of (row id, label id) pairs: their primary key
\* is the pair.  workflows_idx: the unique index on workflows(repo, filename).
\* shape: what ensure_db_shape adds to the schema: the embedding tables it has
\* made (vec: those made as vec0 virtual tables), the tables with a full-text
\* index, the views, the foreign keys (table, column, other table, other
\* column) and the single-column indexes (table, column).
EmptyShape == [made |-> {}, vec |-> {}, fts |-> {}, views |-> {}, fks |-> {}, indexes |-> {}]

EmptyDb ==
  [users |-> EmptyTable, licenses |-> EmptyTable, repos |-> EmptyTable,
   milestones |-> EmptyTable, issues |-> EmptyTable, labels |-> EmptyTable,
   issues_labels |-> {}, pull_requests |-> EmptyTable,
   labels_pull_requests |-> {}, raw_authors |-> EmptyTable,
   commits |-> EmptyTable, releases |-> EmptyTable, assets |-> EmptyTable,
   workflows |-> EmptyTable, jobs |-> EmptyTable, steps |-> EmptyTable,
   workflows_idx |-> FALSE,
   issue_comments |-> EmptyTable, dependents |-> EmptyTable,
   contributors |-> EmptyTable,
   shape |-> EmptyShape]

\* -------------------------------------------------------------- save_user
\* A user payload: id, login and the keys a full (non-stub) payload adds.
UserNone == [id |-> None, login |-> Absent, name |-> Absent, company |-> Absent]

\* (the payload has no such key at all)
UserAbsent == [id |-> -1, login |-> Absent, name |-> Absent, company |-> Absent]

StubUser(i) ==
  [id |-> i, login |-> IF i = 1 THEN "octo" ELSE "hubot",
   name |-> Absent, company |-> Absent]

FullUser(i) ==
  [id |-> i, login |-> IF i = 1 THEN "octo" ELSE "hubot",
   name |-> IF i = 1 THEN "Octo Cat" ELSE NoneS, company |-> "GitHub"]

\* Table.upsert(record, pk="id", alter=True): the keys of the record overwrite
\* the row's columns, the other columns keep their value (NULL in a new row).
UpsertRow(table, pk, record, nullrow) ==
  LET old == IF pk \in DOMAIN table THEN table[pk] ELSE nullrow
  IN Put(table, pk,
         [c \in DOMAIN nullrow |->
            IF record[c] = Absent THEN old[c] ELSE record[c]])

UserNullRow == [login |-> NoneS, name |-> NoneS, company |-> NoneS]

save_user(d, user) ==
  IF user = UserNone
  THEN [db |-> d, pk |-> None]
  ELSE LET to_save ==
             [c \in DOMAIN UserNullRow |->
                IF c = "name" /\ user.name \in {Absent, NoneS}
                THEN user.login ELSE user[c]]
       IN [db |-> [d EXCEPT !.users = UpsertRow(@, user.id, to_save, UserNullRow)],
           pk |-> user.id]

\* ------------------------------------------------- save_commits, per commit
\* hash_id="id": the primary key is the SHA-1 of the row's (name, email); the
\* pair itself stands for the digest (SHA-1 taken as collision-free).
hash_id(name, email) == <<name, email>>

\* (a raw-author saver that hashes the date too)
save_commit_authorWithDate(d, raw_author) ==
  LET id == <<raw_author.name, raw_author.email, raw_author.date>>
  IN [db |-> [d EXCEPT !.raw_authors =
                 Put(@, id, [name |-> raw_author.name, email |-> raw_author.email])],
      pk |-> id]

save_commit_author(d, raw_author) ==
  LET id == hash_id(raw_author.name, raw_author.email)
  IN [db |-> [d EXCEPT !.raw_authors =
                 Put(@, id, [name |-> raw_author.name, email |-> raw_author.email])],
      pk |-> id]

save_commit(d, commit, repo_id) ==
  LET a == save_commit_author(d, commit.commit.author)
      c == save_commit_author(a.db, commit.commit.committer)
      u == IF commit.author # UserNone THEN save_user(c.db, commit.author)
           ELSE [db |-> c.db, pk |-> None]
      v == IF commit.committer # UserNone THEN save_user(u.db, commit.committer)
           ELSE [db |-> u.db, pk |-> None]
  IN [v.db EXCEPT !.commits =
        Put(@, commit.sha,
            [message |-> commit.commit.message,
             author_date |-> commit.commit.author.date,
             committer_date |-> commit.commit.committer.date,
             raw_author |-> a.pk, raw_committer |-> c.pk,
             repo |-> repo_id, author |-> u.pk, committer |-> v.pk])]

\* ------------------------------------------------- save_license, save_repo
LicenseNone == [key |-> NoneS, name |-> NoneS]

\* (a license saver that returns the key and writes no row)
save_licenseNoRow(d, license) == [db |-> d, pk |-> license.key]

save_license(d, license) ==
  IF license = LicenseNone
  THEN [db |-> d, pk |-> NoneS]
  ELSE [db |-> [d EXCEPT !.licenses = Put(@, license.key, [name |-> license.name])],
        pk |-> license.key]

\* The keys ending in "url"
EndsWithUrl(k) == k \in {"url", "html_url", "clone_url", "avatar_url", "labels_url"}

RepoColumns ==
  {k \in {"full_name", "description", "html_url", "url", "clone_url",
          "owner", "license", "organization"} :
     k = "html_url" \/ ~EndsWithUrl(k)}

save_repo(d, repo) ==
  LET o == save_user(d, repo.owner)
      l == save_license(o.db, repo.license)
      g == IF repo.organization # UserAbsent THEN save_user(l.db, repo.organization)
           ELSE [db |-> l.db, pk |-> None]
      to_save == [k \in RepoColumns |->
                    IF k = "owner" THEN o.pk
                    ELSE IF k = "license" THEN l.pk
                    ELSE IF k = "organization" THEN g.pk
                    ELSE repo[k]]
  IN [db |-> [g.db EXCEPT !.repos = Put(@, repo.id, to_save)], pk |-> repo.id]

\* ------------------------------------------- save_milestone, save_issues
MilestoneNone == [id |-> None, title |-> NoneS, creator |-> UserNone]

\* (a milestone saver that writes the creator's id without saving the creator)
save_milestoneNoCreator(d, milestone, repo_id) ==
  [db |-> [d EXCEPT !.milestones =
             Put(@, milestone.id,
                 [title |-> milestone.title, creator |-> milestone.creator.id,
                  repo |-> repo_id])],
   pk |-> milestone.id]

save_milestone(d, milestone, repo_id) ==
  LET c == save_user(d, milestone.creator)
  IN [db |-> [c.db EXCEPT !.milestones =
                 Put(@, milestone.id,
                     [title |-> milestone.title, creator |-> c.pk, repo |-> repo_id])],
      pk |-> milestone.id]

\* (an m2m that stores the label and forgets the link row)
m2mNoLink(d, link_table, our_id, label) ==
  [d EXCEPT !.labels = Put(@, label.id, [name |-> label.name, color |-> label.color])]

\* Table.m2m("labels", label, pk="id"): the label is inserted with replace=True
\* and the (our id, label id) pair is inserted with replace=True into the link
\* table, whose primary key is the pair.
m2m(d, link_table, our_id, label) ==
  [d EXCEPT !.labels = Put(@, label.id, [name |-> label.name, color |-> label.color]),
            ![link_table] = @ \cup {<<our_id, label.id>>}]

RECURSIVE m2m_all(_, _, _, _, _)
\* "for label in labels: table.m2m(...)", from the i-th label on
m2m_all(d, link_table, our_id, labels, i) ==
  IF i > Len(labels) THEN d
  ELSE m2m_all(m2m(d, link_table, our_id, labels[i]), link_table, our_id, labels, i + 1)

\* The body of save_issues' loop, for one issue
save_issue(d, original, repo_id) ==
  LET u == save_user(d, original.user)
      m == IF original.milestone # MilestoneNone
           THEN save_milestone(u.db, original.milestone, repo_id)
           ELSE [db |-> u.db, pk |-> None]
      a == IF original.assignee # UserNone THEN save_user(m.db, original.assignee)
           ELSE [db |-> m.db, pk |-> None]
      issue == [number |-> original.number, title |-> original.title,
                repo |-> repo_id,
                pull_request |-> original.pull_request,
                user |-> u.pk, milestone |-> m.pk, assignee |-> a.pk,
                type |-> IF original.pull_request # NoneS THEN "pull" ELSE "issue"]
      inserted == [a.db EXCEPT !.issues = Put(@, original.id, issue)]
  IN m2m_all(inserted, "issues_labels", original.id, original.labels, 1)

\* The body of save_pull_requests' loop, for one pull request
save_pull_request(d, original, repo_id) ==
  LET u == save_user(d, original.user)
      g == IF original.merged_by # UserNone THEN save_user(u.db, original.merged_by)
           ELSE [db |-> u.db, pk |-> None]
      m == IF original.milestone # MilestoneNone
           THEN save_milestone(g.db, original.milestone, repo_id)
           ELSE [db |-> g.db, pk |-> None]
      a == IF original.assignee # UserNone THEN save_user(m.db, original.assignee)
           ELSE [db |-> m.db, pk |-> None]
      pull_request == [number |-> original.number, title |-> original.title,
                       repo |-> repo_id, url |-> original.links_html_href,
                       head |-> original.head.sha, base |-> original.base.sha,
                       user |-> u.pk, merged_by |-> g.pk,
                       milestone |-> m.pk, assignee |-> a.pk]
      inserted == [a.db EXCEPT !.pull_requests = Put(@, original.id, pull_request)]
  IN m2m_all(inserted, "labels_pull_requests", original.id, original.labels, 1)

\* ------------------------------------------------------------ save_releases
RECURSIVE save_assetsNoPk(_, _, _, _)
\* (assets written without pk="id": every asset becomes a new row)
save_assetsNoPk(d, assets, release_id, i) ==
  IF i > Len(assets) THEN d
  ELSE LET u == save_user(d, assets[i].uploader)
       IN save_assetsNoPk(
            [u.db EXCEPT !.assets =
               Put(@, Max(DOMAIN @) + 1,
                   [name |-> assets[i].name, uploader |-> u.pk, release |-> release_id])],
            assets, release_id, i + 1)

RECURSIVE save_assets(_, _, _, _)
\* "for asset in assets: ..." and db["assets"].upsert_all(assets, pk="id")
save_assets(d, assets, release_id, i) ==
  IF i > Len(assets) THEN d
  ELSE LET u == save_user(d, assets[i].uploader)
       IN save_assets(
            [u.db EXCEPT !.assets =
               Put(@, assets[i].id,
                   [name |-> assets[i].name, uploader |-> u.pk, release |-> release_id])],
            assets, release_id, i + 1)

\* The body of save_releases' loop, for one release
save_release(d, original, repo_id) ==
  LET a == save_user(d, original.author)
      release == [name |-> original.name, html_url |-> original.html_url,
                  repo |-> repo_id, author |-> a.pk]
  IN save_assets([a.db EXCEPT !.releases = Put(@, original.id, release)],
                 original.assets, original.id, 1)

\* ------------------------------------------------------------ save_workflow
\* A parsed workflow document: kind "mapping" (a YAML mapping), "empty" (yaml
\* gives None) or "invalid" (yaml.safe_load raises); name (Absent when the
\* document has none); on (the trigger block, which PyYAML files under the key
\* True); jobs, a sequence of [name, ok, tag, steps]: ok is FALSE for a job
\* whose body is not a mapping ("build:" with nothing under it), steps is the
\* sequence of the steps' "run" texts.

\* A new row's id in a table with an INTEGER PRIMARY KEY: the largest rowid + 1
NewId(table) == Max(DOMAIN table) + 1

\* rows_where("repo = ? and filename = ?"), as row ids in rowid order
existing_workflows(d, repo_id, filename) ==
  {w \in DOMAIN d.workflows :
     d.workflows[w].repo = repo_id /\ d.workflows[w].filename = filename}

\* (a delete that forgets the steps)
delete_existingKeepsSteps(d, existing_id) ==
  [d EXCEPT !.jobs = Drop(@, {j \in DOMAIN @ : @[j].workflow = existing_id}),
            !.workflows = Drop(@, {existing_id})]

\* lines 1020-1024: delete the steps of the workflow's jobs, its jobs, its row
delete_existing(d, existing_id) ==
  LET js == {j \in DOMAIN d.jobs : d.jobs[j].workflow = existing_id}
  IN [d EXCEPT !.steps = Drop(@, {t \in DOMAIN @ : @[t].job \in js}),
               !.jobs = Drop(@, js),
               !.workflows = Drop(@, {existing_id})]

RECURSIVE insert_steps(_, _, _, _, _)
\* db["steps"].insert_all([...]), one statement: all the rows or none
insert_steps(steps_table, steps, job_id, repo_id, i) ==
  IF i > Len(steps) THEN steps_table
  ELSE insert_steps(
         Put(steps_table, NewId(steps_table),
             [seq |-> i, job |-> job_id, repo |-> repo_id, run |-> steps[i]]),
         steps, job_id, repo_id, i + 1)

RECURSIVE insert_jobs(_, _, _, _, _)
\* lines 1044-1078, from the i-th job on; a job whose body is not a mapping
\* makes job_details.pop raise, which ends the call with what is written so far
insert_jobs(d, jobs, workflow_id, repo_id, i) ==
  IF i > Len(jobs) THEN [db |-> d, raised |-> FALSE]
  ELSE IF ~jobs[i].ok THEN [db |-> d, raised |-> TRUE]
  ELSE LET job_id == NewId(d.jobs)
       IN insert_jobs(
            [d EXCEPT !.jobs = Put(@, job_id,
                                   [workflow |-> workflow_id, name |-> jobs[i].name,
                                    repo |-> repo_id, runs_on |-> jobs[i].tag]),
                      !.steps = insert_steps(@, jobs[i].steps, job_id, repo_id, 1)],
            jobs, workflow_id, repo_id, i + 1)

\* (the decomposer as it would be without replace-on-reimport: no lookup of an
\* existing row and no unique index)
save_workflowAppendOnly(d, repo_id, filename, workflow) ==
  IF workflow.kind # "mapping" THEN [db |-> d, raised |-> TRUE]
  ELSE LET workflow_id == NewId(d.workflows)
       IN insert_jobs(
            [d EXCEPT !.workflows =
               Put(@, workflow_id,
                   [repo |-> repo_id, filename |-> filename,
                    name |-> IF workflow.name = Absent THEN filename ELSE workflow.name,
                    on |-> workflow.on])],
            workflow.jobs, workflow_id, repo_id, 1)

\* save_workflow.  Every statement commits on its own, so a call that raises
\* leaves what the statements before the raise have written.
save_workflow(d, repo_id, filename, workflow) ==
  IF workflow.kind # "mapping"
  THEN \* yaml.safe_load raises, or workflow is None and workflow.pop raises
       [db |-> d, raised |-> TRUE]
  ELSE LET existing == existing_workflows(d, repo_id, filename)
           d1 == IF existing # {}
                 THEN delete_existing(d, CHOOSE w \in existing : \A x \in existing : w <= x)
                 ELSE d
           workflow_id == NewId(d1.workflows)
       IN IF d1.workflows_idx /\ existing_workflows(d1, repo_id, filename) # {}
          THEN \* the insert violates the unique index: IntegrityError
               [db |-> d1, raised |-> TRUE]
          ELSE insert_jobs(
                 [d1 EXCEPT !.workflows =
                    Put(@, workflow_id,
                        [repo |-> repo_id, filename |-> filename,
                         name |-> IF workflow.name = Absent THEN filename
                                  ELSE workflow.name,
                         on |-> workflow.on]),
                            !.workflows_idx = TRUE],
                 workflow.jobs, workflow_id, repo_id, 1)

\* ------------------------------------------------------------ table_names
\* The tables the save_ functions make
EntityTables ==
  {"users", "licenses", "repos", "milestones", "issues", "labels", "issues_labels",
   "pull_requests", "labels_pull_requests", "raw_authors", "commits", "releases",
   "assets", "workflows", "jobs", "steps", "issue_comments", "dependents"}

\* Table.exists().  sqlite-utils makes a table at the first insert into it, so
\* a table exists once it holds a row; save_issues and save_pull_requests
\* make milestones before their loop; the workflows table exists once its
\* unique index does.  (A jobs or steps table that a re-import has emptied
\* counts as absent.)
exists(d, t) ==
  IF t = "workflows" THEN d.workflows_idx
  ELSE IF t = "milestones"
  THEN DOMAIN d.milestones # {} \/ DOMAIN d.issues # {} \/ DOMAIN d.pull_requests # {}
  ELSE IF t \in {"issues_labels", "labels_pull_requests"} THEN d[t] # {}
  ELSE DOMAIN d[t] # {}

\* db.table_names(), without the shadow tables of the full-text indexes
table_names(d) == {t \in EntityTables : exists(d, t)} \cup d.shape.made

\* ------------------------------------------------------ save_issue_comment
\* "{}/{}".format(user_slug, repo_slug)
format(user_slug, repo_slug) ==
  IF user_slug = "octo" /\ repo_slug = "one" THEN "octo/one"
  ELSE IF user_slug = "hubot" /\ repo_slug = "two" THEN "hubot/two"
  ELSE "other"

\* "(select id from repos where full_name = :repo)": the id of the first such
\* row, NULL without one
repo_subquery(d, full_name) ==
  LET rs == {r \in DOMAIN d.repos : d.repos[r].full_name = full_name}
  IN IF rs = {} THEN None ELSE CHOOSE r \in rs : \A x \in rs : r <= x

\* rows_where("number = :number and repo = (select ...)"); a NULL repo equals
\* nothing
issue_rows(d, full_name, number) ==
  LET repo == repo_subquery(d, full_name)
  IN {i \in DOMAIN d.issues :
        repo # None /\ d.issues[i].number = number /\ d.issues[i].repo = repo}

\* (a comment saver that links the issue by number alone)
issue_rowsAnyRepo(d, full_name, number) ==
  {i \in DOMAIN d.issues : d.issues[i].number = number}

\* save_issue_comment.  issue_url is the URL split at "/".  The first insert
\* makes the issue_comments table with foreign_keys=("user", "issue"), which
\* sqlite-utils resolves against the tables that exist (users, issues) and
\* refuses with NoObviousTable when one of them does not.
save_issue_comment(d, comment) ==
  LET u == save_user(d, comment.user)
      bits == comment.issue_url
      n == Len(bits)
      rows == issue_rows(u.db, format(bits[n - 3], bits[n - 2]), bits[n])
      issue == IF Cardinality(rows) = 1 THEN CHOOSE i \in rows : TRUE ELSE None
  IN IF ~exists(u.db, "issue_comments")
        /\ ~(exists(u.db, "users") /\ exists(u.db, "issues"))
     THEN [db |-> u.db, raised |-> TRUE]
     ELSE [db |-> [u.db EXCEPT !.issue_comments =
                     Put(@, comment.id,
                         [user |-> u.pk, issue |-> issue, body |-> comment.body])],
           raised |-> FALSE]

\* --------------------------------------------------------- ensure_db_shape
FTS_CONFIG ==
  {"commits", "issue_comments", "issues", "pull_requests", "labels", "licenses",
   "milestones", "releases", "repos", "users"}

\* VIEWS: each view with the tables it requires
VIEWS ==
  [dependent_repos |-> {"repos", "dependents"},
   repos_starred |-> {"stars", "repos", "users"},
   recent_releases |-> {"repos", "releases"}]

FOREIGN_KEYS == {<<"repos", "license", "licenses", "key">>}

\* The foreign-key columns the save_ functions declare when they make a table
\* (the link tables' by Table.m2m)
DeclaredFks(t) ==
  CASE t = "milestones" -> {"repo", "creator"}
    [] t = "issues" -> {"user", "assignee", "milestone", "repo"}
    [] t = "pull_requests" -> {"user", "merged_by", "assignee", "milestone", "repo"}
    [] t = "issue_comments" -> {"user", "issue"}
    [] t = "repos" -> {"owner", "organization"}
    [] t = "releases" -> {"author", "repo"}
    [] t = "assets" -> {"uploader", "release"}
    [] t = "commits" -> {"author", "committer", "raw_author", "raw_committer", "repo"}
    [] t = "workflows" -> {"repo"}
    [] t = "jobs" -> {"workflow", "repo"}
    [] t = "steps" -> {"job", "repo"}
    [] t = "dependents" -> {"repo", "dependent"}
    [] t = "issues_labels" -> {"issues_id", "labels_id"}
    [] t = "labels_pull_requests" -> {"labels_id", "pull_requests_id"}
    [] OTHER -> {}

\* db[t].foreign_keys, as columns
foreign_keys(d, t) ==
  (IF t \in EntityTables /\ exists(d, t) THEN DeclaredFks(t) ELSE {})
  \cup {fk[2] : fk \in {k \in d.shape.fks : k[1] = t}}

\* ensure_foreign_keys: the column tests hold whenever the two tables exist
\* (save_repo always writes "license", licenses is keyed by "key")
ensure_foreign_keys(d) ==
  LET missing == {fk \in FOREIGN_KEYS :
                    /\ fk \notin d.shape.fks
                    /\ exists(d, fk[1]) /\ exists(d, fk[3])}
  IN [d EXCEPT !.shape.fks = @ \cup missing]

\* db.index_foreign_keys(): an index on every foreign-key column that has no
\* single-column index
index_foreign_keys(d) ==
  [d EXCEPT !.shape.indexes =
     @ \cup UNION {{<<t, c>> : c \in foreign_keys(d, t)} : t \in table_names(d)}]

\* The four tables ensure_embedding_tables makes, in the order it makes them
EmbeddingTables ==
  <<"repo_embeddings", "readme_chunk_embeddings", "repo_build_files", "repo_metadata">>

\* _create_table_if_missing: a plain table, with a foreign key repo_id ->
\* repos(id) when `tables` (the names listed when ensure_embedding_tables
\* started) has repos
create_table_if_missing(d, tables, name) ==
  IF name \in tables THEN d
  ELSE [d EXCEPT !.shape.made = @ \cup {name},
                 !.shape.fks = @ \cup IF "repos" \in tables
                                      THEN {<<name, "repo_id", "repos", "id">>}
                                      ELSE {}]

\* _create_virtual_table_if_missing: "create virtual table ... using vec0"
create_virtual_table_if_missing(d, name) ==
  IF name \in table_names(d) THEN d
  ELSE [d EXCEPT !.shape.made = @ \cup {name}, !.shape.vec = @ \cup {name}]

\* ensure_embedding_tables.  using_vec: what _maybe_load_sqlite_vec answers.
\* With the extension, readme_chunk_embeddings is made as a virtual table and
\* "create index ... on readme_chunk_embeddings(repo_id, chunk_index)" is then
\* executed, which SQLite refuses (virtual tables may not be indexed): the
\* call raises with the tables made so far in place.
ensure_embedding_tables(d, using_vec) ==
  LET tables == table_names(d)
      d1 == IF EmbeddingTables[1] \in tables THEN d
            ELSE IF using_vec THEN create_virtual_table_if_missing(d, EmbeddingTables[1])
            ELSE create_table_if_missing(d, tables, EmbeddingTables[1])
  IN IF EmbeddingTables[2] \notin tables /\ using_vec
     THEN [db |-> create_virtual_table_if_missing(d1, EmbeddingTables[2]),
           raised |-> TRUE]
     ELSE [db |-> create_table_if_missing(
                    create_table_if_missing(
                      create_table_if_missing(d1, tables, EmbeddingTables[2]),
                      tables, EmbeddingTables[3]),
                    tables, EmbeddingTables[4]),
           raised |-> FALSE]

\* ensure_db_shape: foreign keys, their indexes, the embedding tables, then a
\* full-text index on every FTS_CONFIG table that exists and has none, then
\* every view all of whose tables exist
ensure_db_shape(d, using_vec) ==
  LET e == ensure_embedding_tables(index_foreign_keys(ensure_foreign_keys(d)), using_vec)
      f == [e.db EXCEPT !.shape.fts = @ \cup {t \in FTS_CONFIG : exists(e.db, t)}]
      existing_tables == table_names(f)
  IN IF e.raised THEN e
     ELSE [db |-> [f EXCEPT !.shape.views =
                     @ \cup {v \in DOMAIN VIEWS : VIEWS[v] \subseteq existing_tables}],
           raised |-> FALSE]

\* ---------------------------------------------------------------- payloads
\* The raw entities of the model's universe, as the API returns them.
UserP(i, full) == IF i = 0 THEN UserNone ELSE IF full = 1 THEN FullUser(i) ELSE StubUser(i)

\* Repo i as the API gives it at two moments (v): licensed and without an
\* organization, then unlicensed and moved to an organization.
RepoP(i, v) ==
  [id |-> i, full_name |-> IF i = 1 THEN "octo/one" ELSE "hubot/two",
   description |-> IF v = 1 THEN "first" ELSE "second",
   html_url |-> "https://github.com/r", url |-> "https://api.github.com/r",
   clone_url |-> "https://github.com/r.git",
   owner |-> StubUser(i),
   license |-> IF v = 1 THEN [key |-> "mit", name |-> "MIT License"] ELSE LicenseNone,
   organization |-> IF v = 1 THEN UserAbsent ELSE StubUser(2)]

Label(l) ==
  [id |-> l, name |-> IF l = 1 THEN "bug" ELSE "help-wanted", color |-> "f00"]

\* The labels picked by the bits of mask, in id order
LabelsOf(mask) ==
  (IF mask % 2 = 1 THEN <<Label(1)>> ELSE <<>>)
  \o (IF mask \div 2 = 1 THEN <<Label(2)>> ELSE <<>>)

Milestone1 == [id |-> 1, title |-> "v1.0", creator |-> StubUser(2)]

IssueP(i, mask) ==
  [id |-> i, number |-> i, title |-> "an issue", user |-> StubUser(1),
   labels |-> LabelsOf(mask),
   milestone |-> IF i = 1 THEN Milestone1 ELSE MilestoneNone,
   assignee |-> IF i = 2 THEN StubUser(2) ELSE UserNone,
   pull_request |-> IF i = 2 THEN "octo/one/pulls/2" ELSE NoneS]

PullRequestP(i, mask) ==
  [id |-> i, number |-> i, title |-> "a pull request", user |-> StubUser(2),
   labels |-> LabelsOf(mask),
   links_html_href |-> "https://github.com/octo/one/pull",
   head |-> [sha |-> "h"], base |-> [sha |-> "b"],
   merged_by |-> IF i = 1 THEN StubUser(1) ELSE UserNone,
   milestone |-> IF i = 2 THEN Milestone1 ELSE MilestoneNone,
   assignee |-> UserNone]

Asset(k) == [id |-> k, name |-> "asset", uploader |-> StubUser(2)]

\* Release i carrying its first n assets
ReleaseP(i, n) ==
  [id |-> i, name |-> "release", html_url |-> "https://github.com/rel",
   author |-> StubUser(1),
   assets |-> [k \in 1 .. n |-> Asset(k)]]

\* Comment c, made on issue number n of octo/one (c = 1) or hubot/two (c = 2);
\* issue_url is the URL split at "/"
CommentP(c, n) ==
  [id |-> c, user |-> StubUser(2), body |-> "a comment",
   issue_url |-> <<"https:", "", "api.github.com", "repos",
                   IF c = 1 THEN "octo" ELSE "hubot",
                   IF c = 1 THEN "one" ELSE "two", "issues", n>>]

\* The lists of dependents a scrape of the dependents page gives (repos named
\* by their number)
DependentLists == << <<1>>, <<2>>, <<2, 1>> >>

\* ------------------------------------------- cli.scrape_dependents, per repo
\* rows_where("full_name = ?", [dependent_repo])
existing_repos(d, full_name) == {r \in DOMAIN d.repos : d.repos[r].full_name = full_name}

\* (a loop body that writes the pair at every scrape)
save_dependentReplace(d, repo_id, dependent, now) ==
  [d EXCEPT !.dependents = Put(@, <<repo_id, dependent>>, [first_seen_utc |-> now])]

\* The body of the loop over the scraped dependents, lines 495-517: the
\* dependent is fetched and saved unless a repo of its name is stored; the
\* (repo, dependent) row is inserted unless it is there
save_dependent(d, repo_id, dependent, now) ==
  LET existing == existing_repos(d, RepoP(dependent, 1).full_name)
      d1 == IF existing = {} THEN save_repo(d, RepoP(dependent, 1)).db ELSE d
      dependent_id == IF existing = {} THEN RepoP(dependent, 1).id
                      ELSE CHOOSE r \in existing : \A x \in existing : r <= x
  IN IF <<repo_id, dependent_id>> \in DOMAIN d1.dependents THEN d1
     ELSE [d1 EXCEPT !.dependents =
             Put(@, <<repo_id, dependent_id>>, [first_seen_utc |-> now])]

RECURSIVE save_dependents(_, _, _, _, _)
\* "for dependent_repo in utils.scrape_dependents(repo, verbose)", from the
\* i-th dependent on
save_dependents(d, repo_id, dependents, now, i) ==
  IF i > Len(dependents) THEN d
  ELSE save_dependents(save_dependent(d, repo_id, dependents[i], now),
                       repo_id, dependents, now, i + 1)

\* The scrape-dependents command for one repo: fetch_repo and save_repo, the
\* loop, ensure_db_shape
scrape_dependents(d, repo, dependents, now, using_vec) ==
  ensure_db_shape(
    save_dependents(save_repo(d, RepoP(repo, 1)).db, RepoP(repo, 1).id, dependents, now, 1),
    using_vec)

\* The (repo, filename) pairs workflows are ingested for
WorkflowPairs ==
  <<[repo |-> 1, filename |-> "a.yml"], [repo |-> 1, filename |-> "b.yml"],
    [repo |-> 2, filename |-> "a.yml"]>>

Job(name, tag, steps) == [name |-> name, ok |-> TRUE, tag |-> tag, steps |-> steps]

BadJob(name) == [name |-> name, ok |-> FALSE, tag |-> NoneS, steps |-> <<>>]

WorkflowDoc(name, jobs) ==
  [kind |-> "mapping", name |-> name, on |-> "push", jobs |-> jobs]

\* The documents: two jobs with five steps, its revision with one job and two
\* steps, a document without jobs or name, a revision whose second job has no
\* body, an empty file and a file that is not YAML.
WorkflowDocs ==
  <<WorkflowDoc("CI", <<Job("build", "v1", <<"b1", "b2">>),
                        Job("test", "v1", <<"t1", "t2", "t3">>)>>),
    WorkflowDoc("CI", <<Job("build", "v2", <<"c1", "c2">>)>>),
    WorkflowDoc(Absent, <<>>),
    WorkflowDoc("CI", <<Job("lint", "v3", <<"l1">>), BadJob("build")>>),
    [kind |-> "empty", name |-> Absent, on |-> NoneS, jobs |-> <<>>],
    [kind |-> "invalid", name |-> Absent, on |-> NoneS, jobs |-> <<>>]>>

\* =========================================================================
\* The paginated walk: paginate, its retry transport, the fetch_x generator
\* built on it and the consumer that drains the generator.
\* =========================================================================
VARIABLES
  chain,     \* the server: page u answers at URL u; its "next" link is u + 1
  mode,      \* who drives paginate: "paginate", "releases", "commits", "commits_all"
  start,     \* the commit SHAs the store holds when the run starts
  db,        \* the store
  url,       \* paginate's url (0: None)
  pc,        \* where the walk is: "loop", "send", "got", "items", "done"
  attempt,   \* retries the transport has used up in the current sess.get
  served,    \* per URL, requests the server has answered (it stops counting at 1)
  reqs,      \* per URL, HTTP requests sent (observation, stops counting at ReqCap)
  response,  \* the response sess.get returned
  data,      \* the page paginate yielded last (its URL), iterated by fetch_x
  pos,       \* position of fetch_x's loop in data
  yielded,   \* what the outer generator has yielded, in order (observation)
  logged,    \* error classes printed to stderr
  outcome,   \* how the walk ended, "running" before
  last,      \* the normalizer call made last (SpecStore)
  prev,      \* the normalizer call made before it (observation)
  ops        \* normalizer calls made so far (SpecStore)

VARIABLES
  run,                \* which commits run of the command line this walk is
  kind, original,     \* a payload object its caller holds on to, and its kind
  sentences, target_length, chunks,   \* SimpleChunker: input, setting, output
  installed,          \* the sqlite_vec package can be imported
  loadable,           \* the connections on which sqlite_vec.load succeeds
  loaded,             \* the connections that have the extension loaded
  SQLITE_VEC_LOADED,  \* utils._SQLITE_VEC_LOADED, one for the process
  SQLITE_VEC_CACHE,   \* embedding_utils._SQLITE_VEC_CACHE, per connection
  answer              \* per connection, what _maybe_load_sqlite_vec said last

\* No normalizer call yet
NoCall == [op |-> "none", a |-> 0, b |-> 0, raised |-> FALSE]

walkvars == <<chain, mode, start, url, pc, attempt, served, reqs, response,
              data, pos, yielded, logged, outcome>>

heldvars == <<kind, original>>

chunkvars == <<sentences, target_length, chunks>>

vecvars == <<installed, loadable, loaded, SQLITE_VEC_LOADED, SQLITE_VEC_CACHE, answer>>

auxvars == <<heldvars, chunkvars, vecvars>>

vars == <<walkvars, db, last, prev, ops, run, auxvars>>

\* No payload is held, no chunker has run, no connection is open
AuxIdle ==
  /\ kind = "none" /\ original = <<>>
  /\ sentences = <<>> /\ target_length = 1 /\ chunks = <<>>
  /\ installed = FALSE /\ loadable = {} /\ loaded = {}
  /\ SQLITE_VEC_LOADED = "None" /\ SQLITE_VEC_CACHE = <<>> /\ answer = <<>>

\* Observation counters and histories stop growing here, so that a walk that
\* never ends is a cycle of states.
ReqCap == 2 * (MaxRetries + 1) + 1

HistCap == MaxPages * MaxItems + 2

Record(h, x) == IF Len(h) < HistCap THEN Append(h, x) ELSE h

\* The kinds of page a server can hold.  flaky: the first request of the URL is
\* answered 503, the later ones as the page says.
Pages ==
  [status : {200}, body : {"list"}, n : 0 .. MaxItems, flaky : BOOLEAN]
  \cup [status : {200, 404, 503}, body : {"message"}, n : {0}, flaky : {FALSE}]
  \cup [status : {409}, body : {"empty_repo"}, n : {0}, flaky : {FALSE}]
  \cup [status : {204}, body : {"none"}, n : {0}, flaky : {FALSE}]
  \cup [status : {503}, body : {"html"}, n : {0}, flaky : {FALSE}]

Chains == UNION {[1 .. len -> Pages] : len \in 1 .. MaxPages}

\* Item j of page u: a commit (release, ...) with a SHA (id) of its own.
Sha(u, j) == (u - 1) * MaxItems + j

Shas == 1 .. MaxPages * MaxItems

\* Iterating a page's JSON: the items of a list; of an error object its keys
\* ("message", "documentation_url"), strings, written 0.
Items(c, u) ==
  IF c[u].body = "list" THEN [j \in 1 .. c[u].n |-> Sha(u, j)] ELSE <<0, 0>>

\* The status the server answers URL u with.
ServerStatus(u) == IF chain[u].flaky /\ served[u] = 0 THEN 503 ELSE chain[u].status

\* (a walk that drops the "next" link: it never leaves the first page)
NextLinkDropped(u) == None

\* response.links.get("next", {}).get("url")
NextLink(u) == IF u < Len(chain) THEN u + 1 ELSE None

\* The commit the API lists under a SHA.
CommitOf(sha) ==
  [sha |-> sha,
   author |-> IF sha % 2 = 1 THEN StubUser(1) ELSE UserNone,
   committer |-> UserNone,
   commit |-> [message |-> "msg",
               author |-> [name |-> "Octo", email |-> "octo@example.com", date |-> "d1"],
               committer |-> [name |-> IF sha % 2 = 1 THEN "Octo" ELSE "Bot",
                              email |-> IF sha % 2 = 1 THEN "octo@example.com"
                                        ELSE "bot@example.com",
                              date |-> "d2"]]]

RECURSIVE save_commits(_, _, _)
\* save_commits over a set of the listed commits (their order does not matter:
\* every row written is keyed and a function of the commit alone)
save_commits(d, S, repo_id) ==
  IF S = {} THEN d
  ELSE LET x == CHOOSE y \in S : TRUE
       IN save_commits(save_commit(d, CommitOf(x), repo_id), S \ {x}, repo_id)

\* (a stop predicate that never fires)
stop_whenNever(d, sha) == FALSE

\* cli.commits' stop_when: db["commits"].get(commit["sha"]) finds a row
stop_when(d, sha) == sha \in DOMAIN d.commits

\* (a --all flag that is ignored: the predicate stays on)
stop_when_funcAlwaysOn(m, d, sha) == stop_when(d, sha)

\* (a predicate that is never true, whatever the mode)
stop_when_funcOff(m, d, sha) == FALSE

\* The predicate fetch_commits runs with: cli.commits passes stop_when, or None
\* under --all, which fetch_commits replaces by a predicate that is never true
stop_when_func(m, d, sha) == IF m = "commits" THEN stop_when(d, sha) ELSE FALSE

\* (a paginate without the 204 test)
NoContentIgnored(r) == FALSE

\* paginate line 514: "if response.status_code == 204: return"
NoContent(r) == r.status = 204

WalkInit ==
  /\ chain \in Chains
  /\ mode \in {"paginate", "releases", "commits", "commits_all"}
  /\ start \in IF mode \in {"commits", "commits_all"} THEN SUBSET Shas ELSE {{}}
  /\ db = save_commits(EmptyDb, start, 1)
  /\ url = 1
  /\ pc = "loop"
  /\ attempt = 0
  /\ served = [u \in 1 .. Len(chain) |-> 0]
  /\ reqs = [u \in 1 .. Len(chain) |-> 0]
  /\ response = [status |-> 0, body |-> "none", from |-> 0]
  /\ data = 0
  /\ pos = 0
  /\ yielded = <<>>
  /\ logged = {}
  /\ outcome = "running"
  /\ last = NoCall
  /\ prev = NoCall
  /\ ops = 0
  /\ run = 1
  /\ AuxIdle

\* paginate line 511, "while url:", and the call of sess.get
WhileUrl ==
  /\ pc = "loop"
  /\ IF url = None
     THEN /\ pc' = "done"
          /\ outcome' = "exhausted"
          /\ UNCHANGED attempt
     ELSE /\ pc' = "send"
          /\ attempt' = 0
          /\ UNCHANGED outcome
  /\ UNCHANGED <<chain, mode, start, db, url, served, reqs, response, data, pos,
                 yielded, logged, last, prev, ops, run, auxvars>>

\* One HTTP request of the retry transport (HTTPAdapter with
\* Retry(backoff_factor=0.1, raise_on_status=False, status_forcelist=...)):
\* a status of the forcelist is retried while retries are left; when they are
\* used up the last response is returned, not raised.
Send ==
  /\ pc = "send"
  /\ LET st == ServerStatus(url)
     IN /\ reqs' = [reqs EXCEPT ![url] = Min(@ + 1, ReqCap)]
        /\ served' = [served EXCEPT ![url] = 1]
        /\ IF st \in status_forcelist /\ attempt < MaxRetries
           THEN /\ attempt' = attempt + 1
                /\ UNCHANGED <<pc, response>>
           ELSE /\ pc' = "got"
                /\ response' = [status |-> st,
                                body |-> IF st = chain[url].status
                                         THEN chain[url].body ELSE "message",
                                from |-> url]
                /\ UNCHANGED attempt
  /\ UNCHANGED <<chain, mode, start, db, url, data, pos, yielded, logged,
                 outcome, last, prev, ops, run, auxvars>>

\* GitHubError.from_response: the class of the error that is printed
from_response(r) ==
  IF r.body = "empty_repo" THEN "GitHubRepositoryEmpty" ELSE "GitHubError"

\* paginate lines 513-523: the response in hand, up to "yield data"
Receive ==
  /\ pc = "got"
  /\ IF NoContent(response)
     THEN /\ pc' = "done"
          /\ outcome' = "no_content"
          /\ UNCHANGED <<url, data, pos, yielded, logged>>
     ELSE IF response.body = "html"
     THEN \* response.json() raises JSONDecodeError
          /\ pc' = "done"
          /\ outcome' = "raised"
          /\ UNCHANGED <<url, data, pos, yielded, logged>>
     ELSE /\ logged' = IF response.body \in {"message", "empty_repo"}
                       THEN logged \cup {from_response(response)} ELSE logged
          /\ url' = IF response.status = 200 THEN NextLink(url) ELSE url
          /\ data' = response.from
          /\ UNCHANGED outcome
          /\ IF mode = "paginate"
             THEN /\ yielded' = Record(yielded, response.from)
                  /\ pc' = "loop"
                  /\ UNCHANGED pos
             ELSE /\ pc' = "items"
                  /\ pos' = 1
                  /\ UNCHANGED yielded
  /\ UNCHANGED <<chain, mode, start, db, attempt, served, reqs, response, last, prev, ops,
                 run, auxvars>>

\* The body of the page paginate yielded (the body the response carried)
DataItems == IF response.body = "list" THEN Items(chain, data) ELSE <<0, 0>>

\* One turn of the fetch_x loop over the page and of its consumer:
\*   fetch_releases: "yield from releases", drained by save_releases;
\*   fetch_commits: "if stop_when(commit): return, else: yield commit",
\*   drained by save_commits.
\* An item that is a string (a key of an error object) makes the first code
\* that indexes it raise (stop_when's commit["sha"], save_commits' commit["sha"],
\* save_releases' original.items()).
Item ==
  /\ pc = "items"
  /\ IF pos > Len(DataItems)
     THEN /\ pc' = "loop"
          /\ UNCHANGED <<db, pos, yielded, outcome>>
     ELSE LET item == DataItems[pos]
          IN IF item = 0
             THEN /\ pc' = "done"
                  /\ outcome' = "raised"
                  /\ yielded' = IF mode = "commits" THEN yielded ELSE Record(yielded, item)
                  /\ UNCHANGED <<db, pos>>
             ELSE IF stop_when_func(mode, db, item)
             THEN /\ pc' = "done"
                  /\ outcome' = "stopped"
                  /\ UNCHANGED <<db, pos, yielded>>
             ELSE /\ yielded' = Record(yielded, item)
                  /\ db' = IF mode = "releases"
                           THEN save_release(db, ReleaseP(item, 0), 1)
                           ELSE save_commit(db, CommitOf(item), 1)
                  /\ pos' = pos + 1
                  /\ UNCHANGED <<pc, outcome>>
  /\ UNCHANGED <<chain, mode, start, url, attempt, served, reqs, response, data,
                 logged, last, prev, ops, run, auxvars>>

WalkNext == WhileUrl \/ Send \/ Receive \/ Item

SpecWalk == WalkInit /\ [][WalkNext]_vars

\* The walk is one sequential program whose consumer keeps pulling: it takes
\* its next step whenever it has one.
FairWalk == SpecWalk /\ WF_vars(WalkNext)

\* -------------------------------------------------- the commits command, again
\* The incremental commits command run on the same store up to MaxRuns times
\* against a history that does not change in between.  A run can be cut
\* short at any point (Ctrl-C, a crash, a dropped connection); every insert
\* of save_commits has committed by then.
RunsInit == WalkInit /\ mode = "commits"

\* The process is killed while the walk is under way
Interrupt ==
  /\ pc \in {"loop", "send", "got", "items"}
  /\ pc' = "done"
  /\ outcome' = "interrupted"
  /\ logged' = logged \cup {"KeyboardInterrupt"}
  /\ UNCHANGED <<chain, mode, start, db, url, attempt, served, reqs, response,
                 data, pos, yielded, last, prev, ops, run, auxvars>>

\* The command is started again: a new paginate from the first page, on the
\* store as the run before left it
NextRun ==
  /\ pc = "done"
  /\ run < MaxRuns
  /\ run' = run + 1
  /\ url' = 1
  /\ pc' = "loop"
  /\ attempt' = 0
  /\ data' = 0
  /\ pos' = 0
  /\ outcome' = "running"
  /\ UNCHANGED <<chain, mode, start, db, served, reqs, response, yielded, logged,
                 last, prev, ops, auxvars>>

RunsNext == WalkNext \/ Interrupt \/ NextRun

SpecRuns == RunsInit /\ [][RunsNext]_vars

\* =========================================================================
\* The normalizer and the workflow decomposer, called in any order on payloads
\* of a small universe.  A call is named by its function and two numbers that
\* pick the payload.
\* =========================================================================
Called(op, a, b, raised) ==
  /\ last' = [op |-> op, a |-> a, b |-> b, raised |-> raised]
  /\ prev' = last
  /\ ops' = ops + 1
  /\ UNCHANGED <<walkvars, run, auxvars>>

SaveUser ==
  /\ ops < MaxOps
  /\ \E i \in 0 .. 2, full \in 0 .. 1 :
       /\ db' = save_user(db, UserP(i, full)).db
       /\ Called("save_user", i, full, FALSE)

SaveRepo ==
  /\ ops < MaxOps
  /\ \E i \in 1 .. 2, v \in 1 .. 2 :
       /\ db' = save_repo(db, RepoP(i, v)).db
       /\ Called("save_repo", i, v, FALSE)

SaveIssues ==
  /\ ops < MaxOps
  /\ \E i \in 1 .. 2, mask \in 0 .. 3 :
       /\ db' = save_issue(db, IssueP(i, mask), 1)
       /\ Called("save_issues", i, mask, FALSE)

SavePullRequests ==
  /\ ops < MaxOps
  /\ \E i \in 1 .. 2, mask \in {1, 3} :
       /\ db' = save_pull_request(db, PullRequestP(i, mask), 1)
       /\ Called("save_pull_requests", i, mask, FALSE)

SaveCommits ==
  /\ ops < MaxOps
  /\ \E sha \in 1 .. 2 :
       /\ db' = save_commit(db, CommitOf(sha), 1)
       /\ Called("save_commits", sha, 0, FALSE)

SaveReleases ==
  /\ ops < MaxOps
  /\ \E i \in 1 .. 2, n \in 0 .. 2 :
       /\ db' = save_release(db, ReleaseP(i, n), 1)
       /\ Called("save_releases", i, n, FALSE)

SaveWorkflow ==
  /\ ops < MaxOps
  /\ \E p \in DOMAIN WorkflowPairs, w \in DOMAIN WorkflowDocs :
       LET r == save_workflow(db, WorkflowPairs[p].repo, WorkflowPairs[p].filename,
                              WorkflowDocs[w])
       IN /\ db' = r.db
          /\ Called("save_workflow", p, w, r.raised)

SaveIssueComment ==
  /\ ops < MaxOps
  /\ \E c \in 1 .. 2, n \in 1 .. 2 :
       LET r == save_issue_comment(db, CommentP(c, n))
       IN /\ db' = r.db
          /\ Called("save_issue_comment", c, n, r.raised)

\* utcnow() reads the number of the call
ScrapeDependents ==
  /\ ops < MaxOps
  /\ \E repo \in 1 .. 2, l \in DOMAIN DependentLists, using_vec \in BOOLEAN :
       LET r == scrape_dependents(db, repo, DependentLists[l], ops + 1, using_vec)
       IN /\ db' = r.db
          /\ Called("scrape_dependents", repo, l, r.raised)

EnsureDbShape ==
  /\ ops < MaxOps
  /\ \E using_vec \in BOOLEAN :
       LET r == ensure_db_shape(db, using_vec)
       IN /\ db' = r.db
          /\ Called("ensure_db_shape", IF using_vec THEN 1 ELSE 0, 0, r.raised)

StoreInit ==
  /\ db = EmptyDb
  /\ last = NoCall
  /\ prev = NoCall
  /\ ops = 0
  /\ run = 1
  /\ AuxIdle
  /\ chain = <<>>
  /\ mode = "none"
  /\ start = {}
  /\ url = None
  /\ pc = "idle"
  /\ attempt = 0
  /\ served = <<>>
  /\ reqs = <<>>
  /\ response = [status |-> 0, body |-> "none", from |-> 0]
  /\ data = 0
  /\ pos = 0
  /\ yielded = <<>>
  /\ logged = {}
  /\ outcome = "idle"

StoreNext ==
  \/ SaveUser \/ SaveRepo \/ SaveIssues \/ SavePullRequests
  \/ SaveCommits \/ SaveReleases \/ SaveWorkflow
  \/ SaveIssueComment \/ ScrapeDependents \/ EnsureDbShape

SpecStore == StoreInit /\ [][StoreNext]_vars


\* =========================================================================
\* SimpleChunker, applied to the sentences its splitter returns.  A sentence
\* is one of two texts; a chunk is [content, token_count], content being the
\* sentences that " ".join puts together.
\* =========================================================================
RECURSIVE chunk_from(_, _, _)
\* SimpleChunker._chunk's loop "for i in range(0, len(sentences), target_length)"
\* from (1-based) position i on: piece = sentences[i : i + target_length]
chunk_from(S, n, i) ==
  IF i > Len(S) THEN <<>>
  ELSE LET piece == SubSeq(S, i, Min(i + n - 1, Len(S)))
       IN <<[content |-> piece, token_count |-> Len(piece)]>> \o chunk_from(S, n, i + n)

\* SimpleChunker(target_length=n)._chunk(sentences)
chunk(S, n) == chunk_from(S, n, 1)

Documents == UNION {[1 .. len -> {"One.", "Two."}] : len \in 0 .. MaxSentences}

ChunkInit ==
  /\ sentences \in Documents
  /\ target_length \in 1 .. MaxTarget
  /\ chunks = <<>>
  /\ kind = "none" /\ original = <<>>
  /\ installed = FALSE /\ loadable = {} /\ loaded = {}
  /\ SQLITE_VEC_LOADED = "None" /\ SQLITE_VEC_CACHE = <<>> /\ answer = <<>>
  /\ db = EmptyDb /\ last = NoCall /\ prev = NoCall /\ ops = 0 /\ run = 1
  /\ chain = <<>> /\ mode = "none" /\ start = {} /\ url = None /\ pc = "idle"
  /\ attempt = 0 /\ served = <<>> /\ reqs = <<>>
  /\ response = [status |-> 0, body |-> "none", from |-> 0]
  /\ data = 0 /\ pos = 0 /\ yielded = <<>> /\ logged = {} /\ outcome = "idle"

\* SimpleChunker.__call__ on one document
Chunk ==
  /\ last.op = "none"
  /\ chunks' = chunk(sentences, target_length)
  /\ last' = [op |-> "chunk", a |-> Len(sentences), b |-> target_length, raised |-> FALSE]
  /\ prev' = last
  /\ ops' = ops + 1
  /\ UNCHANGED <<walkvars, db, run, heldvars, sentences, target_length, vecvars>>

SpecChunk == ChunkInit /\ [][Chunk]_vars

\* =========================================================================
\* Detection of sqlite-vec.  A process opens connections 1 .. MaxConns, each to
\* a database of its own: in SpecVec db maps a connection to its store.
\* _SQLITE_VEC_LOADED is "None", "True" or "False".
\* =========================================================================
Conns == 1 .. MaxConns

\* (a detection that lets the failure of sqlite_vec.load through)
maybe_load_sqlite_vecUncaught(cache, c) ==
  IF cache # "None"
  THEN [ret |-> cache = "True", cache |-> cache, loaded |-> loaded, raised |-> FALSE]
  ELSE IF ~installed
  THEN [ret |-> FALSE, cache |-> "False", loaded |-> loaded, raised |-> FALSE]
  ELSE IF c \notin loadable
  THEN [ret |-> FALSE, cache |-> "None", loaded |-> loaded, raised |-> TRUE]
  ELSE [ret |-> TRUE, cache |-> "True", loaded |-> loaded \cup {c}, raised |-> FALSE]

\* _maybe_load_sqlite_vec, of utils and of embedding_utils, given the cache
\* entry it consults (the module global, or the connection's entry): the
\* cached answer when there is one, else False when "import sqlite_vec" fails
\* or sqlite_vec.load(conn) raises one of the errors caught, else True with the
\* extension loaded on the connection
maybe_load_sqlite_vec(cache, c) ==
  IF cache # "None"
  THEN [ret |-> cache = "True", cache |-> cache, loaded |-> loaded, raised |-> FALSE]
  ELSE IF ~installed
  THEN [ret |-> FALSE, cache |-> "False", loaded |-> loaded, raised |-> FALSE]
  ELSE IF c \notin loadable
  THEN [ret |-> FALSE, cache |-> "False", loaded |-> loaded, raised |-> FALSE]
  ELSE [ret |-> TRUE, cache |-> "True", loaded |-> loaded \cup {c}, raised |-> FALSE]

\* ensure_embedding_tables after its first line, on a connection that has the
\* extension (has_vec) or not: without it "create virtual table ... using
\* vec0" fails with "no such module: vec0"
ensure_embedding_tables_on(d, using_vec, has_vec) ==
  IF /\ using_vec /\ ~has_vec
     /\ {EmbeddingTables[1], EmbeddingTables[2]} \ table_names(d) # {}
  THEN [db |-> d, raised |-> TRUE]
  ELSE ensure_embedding_tables(d, using_vec)

VecInit ==
  /\ installed \in BOOLEAN
  /\ loadable \in IF installed THEN SUBSET Conns ELSE {{}}
  /\ loaded = {}
  /\ SQLITE_VEC_LOADED = "None"
  /\ SQLITE_VEC_CACHE = [c \in Conns |-> "None"]
  /\ answer = <<>>
  /\ db = [c \in Conns |-> EmptyDb]
  /\ kind = "none" /\ original = <<>>
  /\ sentences = <<>> /\ target_length = 1 /\ chunks = <<>>
  /\ last = NoCall /\ prev = NoCall /\ ops = 0 /\ run = 1
  /\ chain = <<>> /\ mode = "none" /\ start = {} /\ url = None /\ pc = "idle"
  /\ attempt = 0 /\ served = <<>> /\ reqs = <<>>
  /\ response = [status |-> 0, body |-> "none", from |-> 0]
  /\ data = 0 /\ pos = 0 /\ yielded = <<>> /\ logged = {} /\ outcome = "idle"

VecCalled(op, c, raised) ==
  /\ last' = [op |-> op, a |-> c, b |-> 0, raised |-> raised]
  /\ prev' = last
  /\ UNCHANGED <<walkvars, ops, run, heldvars, chunkvars, installed, loadable>>

\* utils._maybe_load_sqlite_vec(db), called by itself
MaybeLoad ==
  \E c \in Conns :
    LET r == maybe_load_sqlite_vec(SQLITE_VEC_LOADED, c)
    IN /\ SQLITE_VEC_LOADED' = r.cache
       /\ loaded' = r.loaded
       /\ answer' = IF r.raised THEN answer ELSE Put(answer, <<"utils", c>>, r.ret)
       /\ VecCalled("_maybe_load_sqlite_vec", c, r.raised)
       /\ UNCHANGED <<db, SQLITE_VEC_CACHE>>

\* embedding_utils._maybe_load_sqlite_vec(db)
EmbeddingUtilsMaybeLoad ==
  \E c \in Conns :
    LET r == maybe_load_sqlite_vec(SQLITE_VEC_CACHE[c], c)
    IN /\ SQLITE_VEC_CACHE' = [SQLITE_VEC_CACHE EXCEPT ![c] = r.cache]
       /\ loaded' = r.loaded
       /\ answer' = IF r.raised THEN answer
                    ELSE Put(answer, <<"embedding_utils", c>>, r.ret)
       /\ VecCalled("embedding_utils._maybe_load_sqlite_vec", c, r.raised)
       /\ UNCHANGED <<db, SQLITE_VEC_LOADED>>

\* utils.ensure_embedding_tables(db)
EnsureEmbeddingTables ==
  \E c \in Conns :
    LET r == maybe_load_sqlite_vec(SQLITE_VEC_LOADED, c)
        e == IF r.raised THEN [db |-> db[c], raised |-> TRUE]
             ELSE ensure_embedding_tables_on(db[c], r.ret, c \in r.loaded)
    IN /\ SQLITE_VEC_LOADED' = r.cache
       /\ loaded' = r.loaded
       /\ answer' = IF r.raised THEN answer ELSE Put(answer, <<"utils", c>>, r.ret)
       /\ db' = [db EXCEPT ![c] = e.db]
       /\ VecCalled("ensure_embedding_tables", c, e.raised)
       /\ UNCHANGED SQLITE_VEC_CACHE

\* save_repo on one of the connections
VecSaveRepo ==
  \E c \in Conns :
    /\ db' = [db EXCEPT ![c] = save_repo(@, RepoP(1, 1)).db]
    /\ VecCalled("save_repo", c, FALSE)
    /\ UNCHANGED <<loaded, SQLITE_VEC_LOADED, SQLITE_VEC_CACHE, answer>>

VecNext == MaybeLoad \/ EmbeddingUtilsMaybeLoad \/ EnsureEmbeddingTables \/ VecSaveRepo

SpecVec == VecInit /\ [][VecNext]_vars

\* =========================================================================
\* The commands of the command line, each run on one repo and one fetched
\* item (a batch of files for workflows): save_repo on the fetched repo, the
\* save_ function with the saved repo's id, ensure_db_shape.  Every command is
\* a process of its own with one connection, so _maybe_load_sqlite_vec starts
\* from an empty cache each time.
\* =========================================================================
using_vec_cli == maybe_load_sqlite_vec("None", 1).ret

\* A command's body followed by its closing ensure_db_shape (not reached when
\* the body raised)
then_ensure_db_shape(r) == IF r.raised THEN r ELSE ensure_db_shape(r.db, using_vec_cli)

Done(d) == [db |-> d, raised |-> FALSE]

RECURSIVE save_workflows(_, _, _, _)
\* cli.workflows lines 643-644: "for filename, content in workflows.items():
\* utils.save_workflow(...)", from the i-th file on; an exception ends the loop
save_workflows(d, repo_id, batch, i) ==
  IF i > Len(batch) THEN Done(d)
  ELSE LET r == save_workflow(d, repo_id, batch[i].filename, WorkflowDocs[batch[i].doc])
       IN IF r.raised THEN r ELSE save_workflows(r.db, repo_id, batch, i + 1)

\* The files fetch_workflows finds: a.yml holding document w, and b.yml
\* holding the first document when more
WorkflowBatch(w, more) ==
  <<[filename |-> "a.yml", doc |-> w]>>
  \o (IF more THEN <<[filename |-> "b.yml", doc |-> 1]>> ELSE <<>>)

CliInit ==
  /\ db = EmptyDb
  /\ installed \in BOOLEAN
  /\ loadable \in IF installed THEN SUBSET {1} ELSE {{}}
  /\ loaded = {}
  /\ SQLITE_VEC_LOADED = "None" /\ SQLITE_VEC_CACHE = <<>> /\ answer = <<>>
  /\ kind = "none" /\ original = <<>>
  /\ sentences = <<>> /\ target_length = 1 /\ chunks = <<>>
  /\ last = NoCall /\ prev = NoCall /\ ops = 0 /\ run = 1
  /\ chain = <<>> /\ mode = "none" /\ start = {} /\ url = None /\ pc = "idle"
  /\ attempt = 0 /\ served = <<>> /\ reqs = <<>>
  /\ response = [status |-> 0, body |-> "none", from |-> 0]
  /\ data = 0 /\ pos = 0 /\ yielded = <<>> /\ logged = {} /\ outcome = "idle"

Ran(op, a, b, r) == db' = r.db /\ Called(op, a, b, r.raised)

CmdRepos ==
  /\ ops < MaxOps
  /\ \E i \in 1 .. 2, v \in 1 .. 2 :
       Ran("repos", i, v, then_ensure_db_shape(Done(save_repo(db, RepoP(i, v)).db)))

CmdIssues ==
  /\ ops < MaxOps
  /\ \E repo \in 1 .. 2, i \in 1 .. 2 :
       LET s == save_repo(db, RepoP(repo, 1))
       IN Ran("issues", repo, i,
              then_ensure_db_shape(Done(save_issue(s.db, IssueP(i, 3), s.pk))))

CmdPullRequests ==
  /\ ops < MaxOps
  /\ \E repo \in 1 .. 2, i \in 1 .. 2 :
       LET s == save_repo(db, RepoP(repo, 1))
       IN Ran("pull-requests", repo, i,
              then_ensure_db_shape(Done(save_pull_request(s.db, PullRequestP(i, 1), s.pk))))

CmdIssueComments ==
  /\ ops < MaxOps
  /\ \E c \in 1 .. 2, n \in 1 .. 2 :
       Ran("issue-comments", c, n, then_ensure_db_shape(save_issue_comment(db, CommentP(c, n))))

CmdCommits ==
  /\ ops < MaxOps
  /\ \E repo \in 1 .. 2, sha \in 1 .. 2 :
       LET s == save_repo(db, RepoP(repo, 1))
       IN Ran("commits", repo, sha,
              then_ensure_db_shape(Done(save_commit(s.db, CommitOf(sha), s.pk))))

CmdReleases ==
  /\ ops < MaxOps
  /\ \E repo \in 1 .. 2, n \in {0, 2} :
       LET s == save_repo(db, RepoP(repo, 1))
       IN Ran("releases", repo, n,
              then_ensure_db_shape(Done(save_release(s.db, ReleaseP(repo, n), s.pk))))

CmdWorkflows ==
  /\ ops < MaxOps
  /\ \E repo \in 1 .. 2, w \in DOMAIN WorkflowDocs, more \in BOOLEAN :
       LET s == save_repo(db, RepoP(repo, 1))
       IN Ran("workflows", repo, IF more THEN w + Len(WorkflowDocs) ELSE w,
              then_ensure_db_shape(save_workflows(s.db, s.pk, WorkflowBatch(w, more), 1)))

CmdScrapeDependents ==
  /\ ops < MaxOps
  /\ \E repo \in 1 .. 2, l \in DOMAIN DependentLists :
       Ran("scrape-dependents", repo, l,
           scrape_dependents(db, repo, DependentLists[l], ops + 1, using_vec_cli))

CliNext ==
  \/ CmdRepos \/ CmdIssues \/ CmdPullRequests \/ CmdIssueComments
  \/ CmdCommits \/ CmdReleases \/ CmdWorkflows \/ CmdScrapeDependents

SpecCli == CliInit /\ [][CliNext]_vars

\* =========================================================================
\* A caller that holds on to the payload object it fetched and passes it to
\* the same save_ function more than once.  Python passes the object itself:
\* what the function does to it (or to an object nested in it) is what the
\* caller holds afterwards.  A key that a call removed from a dict holding a
\* number is written -1, as in UserAbsent.
\* =========================================================================
Kinds ==
  {"save_user", "save_repo", "save_issues", "save_pull_requests",
   "save_issue_comment", "save_releases", "save_contributors", "save_commits"}

\* A comment as the API returns it, with its reactions object
CommentWithReactions(c, n) ==
  [f \in DOMAIN CommentP(c, n) \cup {"reactions"} |->
     IF f = "reactions"
     THEN [url |-> "https://api.github.com/reactions", total_count |-> 0]
     ELSE CommentP(c, n)[f]]

\* An item of the contributors list: a stub user with its count
ContributorP(i, n) ==
  [f \in DOMAIN StubUser(i) \cup {"contributions"} |->
     IF f = "contributions" THEN n ELSE StubUser(i)[f]]

Payloads(k) ==
  CASE k = "save_user" -> {UserP(i, full) : i \in 1 .. 2, full \in 0 .. 1}
    [] k = "save_repo" -> {RepoP(i, v) : i \in 1 .. 2, v \in 1 .. 2}
    [] k = "save_issues" -> {IssueP(i, mask) : i \in 1 .. 2, mask \in 0 .. 3}
    [] k = "save_pull_requests" -> {PullRequestP(i, mask) : i \in 1 .. 2, mask \in {1, 3}}
    [] k = "save_issue_comment" -> {CommentWithReactions(c, n) : c \in 1 .. 2, n \in 1 .. 2}
    [] k = "save_releases" -> {ReleaseP(i, n) : i \in 1 .. 2, n \in 0 .. 2}
    [] k = "save_contributors" -> {ContributorP(i, n) : i \in 1 .. 2, n \in 1 .. 2}
    [] k = "save_commits" -> {CommitOf(sha) : sha \in 1 .. 2}

Kept(d, o) == [db |-> d, raised |-> FALSE, original |-> o]

\* save_issue_comment: "comment = dict(comment)" copies the top level only, so
\* comment["reactions"].pop("url") removes the key from the caller's object
save_issue_comment_held(d, comment) ==
  LET r == save_issue_comment(d, comment)
  IN [db |-> r.db, raised |-> r.raised,
      original |-> IF r.raised THEN comment
                   ELSE [comment EXCEPT !.reactions.url = Absent]]

\* An asset dict after save_releases' loop: "uploader" holds the users key
\* and "release" is added
SavedAsset(asset, release_id) ==
  [id |-> asset.id, name |-> asset.name, uploader |-> asset.uploader.id,
   release |-> release_id]

\* save_releases on one release: "assets = release.pop("assets")" is the
\* caller's list, and the loop assigns into its dicts.  On a dict the loop
\* has been over before, save_user gets a number: user.items() raises
\* AttributeError, after the release row is written.
save_releases_held(d, o, repo_id) ==
  IF \E i \in DOMAIN o.assets : "release" \in DOMAIN o.assets[i]
  THEN [db |-> save_release(d, [o EXCEPT !.assets = <<>>], repo_id),
        raised |-> TRUE, original |-> o]
  ELSE [db |-> save_release(d, o, repo_id), raised |-> FALSE,
        original |-> [o EXCEPT !.assets =
                        [i \in DOMAIN @ |-> SavedAsset(@[i], o.id)]]]

\* save_contributors on one contributor: contributor.pop("contributions")
\* takes the key out of the caller's dict (KeyError when it is not there),
\* the rest is saved as a user and the (repo, user) row is written
save_contributors_held(d, contributor, repo_id) ==
  IF contributor.contributions = -1
  THEN [db |-> d, raised |-> TRUE, original |-> contributor]
  ELSE LET u == save_user(d, contributor)
       IN [db |-> [u.db EXCEPT !.contributors =
                     Put(@, <<repo_id, u.pk>>,
                         [contributions |-> contributor.contributions])],
           raised |-> FALSE,
           original |-> [contributor EXCEPT !.contributions = -1]]

\* The save_ function of kind k on the held payload o
normalize(k, d, o) ==
  CASE k = "save_user" -> Kept(save_user(d, o).db, o)
    [] k = "save_repo" -> Kept(save_repo(d, o).db, o)
    [] k = "save_issues" -> Kept(save_issue(d, o, 1), o)
    [] k = "save_pull_requests" -> Kept(save_pull_request(d, o, 1), o)
    [] k = "save_commits" -> Kept(save_commit(d, o, 1), o)
    [] k = "save_issue_comment" -> save_issue_comment_held(d, o)
    [] k = "save_releases" -> save_releases_held(d, o, 1)
    [] k = "save_contributors" -> save_contributors_held(d, o, 1)

HeldInit ==
  /\ kind \in Kinds
  /\ original \in Payloads(kind)
  /\ db = save_issue(save_repo(EmptyDb, RepoP(1, 1)).db, IssueP(1, 0), 1)
  /\ sentences = <<>> /\ target_length = 1 /\ chunks = <<>>
  /\ installed = FALSE /\ loadable = {} /\ loaded = {}
  /\ SQLITE_VEC_LOADED = "None" /\ SQLITE_VEC_CACHE = <<>> /\ answer = <<>>
  /\ last = NoCall /\ prev = NoCall /\ ops = 0 /\ run = 1
  /\ chain = <<>> /\ mode = "none" /\ start = {} /\ url = None /\ pc = "idle"
  /\ attempt = 0 /\ served = <<>> /\ reqs = <<>>
  /\ response = [status |-> 0, body |-> "none", from |-> 0]
  /\ data = 0 /\ pos = 0 /\ yielded = <<>> /\ logged = {} /\ outcome = "idle"

\* One call of the save_ function of the held payload's kind on it
Ingest ==
  /\ ops < MaxOps
  /\ LET r == normalize(kind, db, original)
     IN /\ db' = r.db
        /\ original' = r.original
        /\ last' = [op |-> kind, a |-> 0, b |-> 0, raised |-> r.raised]
  /\ prev' = last
  /\ ops' = ops + 1
  /\ UNCHANGED <<walkvars, run, kind, chunkvars, vecvars>>

HeldSaveUser == kind = "save_user" /\ Ingest

HeldSaveRepo == kind = "save_repo" /\ Ingest

HeldSaveIssues == kind = "save_issues" /\ Ingest

HeldSavePullRequests == kind = "save_pull_requests" /\ Ingest

HeldSaveIssueComment == kind = "save_issue_comment" /\ Ingest

HeldSaveReleases == kind = "save_releases" /\ Ingest

HeldSaveContributors == kind = "save_contributors" /\ Ingest

HeldSaveCommits == kind = "save_commits" /\ Ingest

HeldNext ==
  \/ HeldSaveUser \/ HeldSaveRepo \/ HeldSaveIssues \/ HeldSavePullRequests
  \/ HeldSaveIssueComment \/ HeldSaveReleases \/ HeldSaveContributors
  \/ HeldSaveCommits

SpecHeld == HeldInit /\ [][HeldNext]_vars

\* =========================================================================
\* Properties of the walk
\* =========================================================================
RECURSIVE ItemsFrom(_, _)
\* The items of pages u, u + 1, ... of chain c, in server order
ItemsFrom(c, u) == IF u > Len(c) THEN <<>> ELSE Items(c, u) \o ItemsFrom(c, u + 1)

\* The remote sequence [c1 .. cN] the chain lists
Remote == ItemsFrom(chain, 1)

IsPrefix(a, b) == Len(a) <= Len(b) /\ a = SubSeq(b, 1, Len(a))

Range(q) == {q[i] : i \in DOMAIN q}

\* Every page (finally) answers 200 with a list
AllOk == \A u \in DOMAIN chain : chain[u].status = 200 /\ chain[u].body = "list"

\* What a full walk yields: paginate its pages, a fetch_x generator their items
WholeWalk == IF mode = "paginate" THEN [u \in 1 .. Len(chain) |-> u] ELSE Remote

C1Case == AllOk /\ mode # "commits"

\* C1: over a finite chain of pages that all answer 200, each but the last
\* with a "next" link, paginate and the generators built on it yield every
\* item of every page exactly once, in page order and in within-page order
\* (what has been yielded is at every moment a prefix of the whole), and the
\* walk then terminates, exhausted, having yielded the whole.
C1_YieldsAllInOrder ==
  /\ [](C1Case => IsPrefix(yielded, WholeWalk))
  /\ [](C1Case /\ pc = "done" => outcome = "exhausted" /\ yielded = WholeWalk)
  /\ (C1Case ~> pc = "done")

C1_Witness ==
  /\ C1Case /\ pc = "done" /\ mode = "releases"
  /\ Len(chain) = MaxPages /\ \A u \in DOMAIN chain : chain[u].n = MaxItems
  /\ yielded = Remote /\ Len(yielded) = MaxPages * MaxItems

\* Positions of the remote sequence whose SHA the store held at the start
KnownAt == {i \in DOMAIN Remote : Remote[i] \in start}

\* k: the first of them
FirstKnown == CHOOSE i \in KnownAt : \A j \in KnownAt : i <= j

\* An incremental commits run over a remote sequence in which ck is the first
\* commit already held, the pages up to ck's being lists of commits
C2Case ==
  /\ mode = "commits"
  /\ KnownAt # {}
  /\ \A i \in 1 .. FirstKnown : Remote[i] # 0

NewCommits == SubSeq(Remote, 1, FirstKnown - 1)

\* C2: the incremental commits run yields and stores exactly [c1 .. c(k-1)]:
\* at every moment what it has yielded is a prefix of that and the store
\* holds the commits it held at the start plus the yielded ones; when the run
\* is over it has stopped on ck, having yielded all of [c1 .. c(k-1)].
C2_StopsAtFirstKnown ==
  C2Case =>
    /\ IsPrefix(yielded, NewCommits)
    /\ DOMAIN db.commits = start \cup Range(yielded)
    /\ pc = "done" => outcome = "stopped" /\ yielded = NewCommits

C2_Witness ==
  /\ C2Case /\ pc = "done" /\ outcome = "stopped"
  /\ FirstKnown = MaxItems + 1
  /\ Len(yielded) = MaxItems
  /\ Cardinality(start) = 1

\* C8 as claimed: over a finite chain the walk ends, whatever the pages carry
C8_AlwaysTerminates == <>(pc = "done")

\* A URL that keeps answering with a retryable status
KeepsFailing(u) == chain[u].status \in status_forcelist

\* C9 as claimed: such a URL is requested at most 1 + MaxRetries times and
\* its error page is not yielded as data
C9_RetriesBoundedThenFatal ==
  \A u \in DOMAIN chain :
    KeepsFailing(u) => reqs[u] <= MaxRetries + 1 /\ data # u

\* C10 as claimed: a URL that answered 4xx is not requested a second time
C10_ClientErrorNotRetried ==
  \A u \in DOMAIN chain :
    chain[u].status \in 400 .. 499 => reqs[u] <= 1

\* C11 as claimed: when the commits endpoint answers that the repository is
\* empty, fetch_commits yields nothing and does not raise, and no commit row
\* is stored
C11_EmptyRepoIsZeroCommits ==
  mode \in {"commits", "commits_all"} /\ chain[1].body = "empty_repo"
  => /\ yielded = <<>>
     /\ outcome # "raised"
     /\ DOMAIN db.commits = start

\* A commits --all run
C17Case == mode = "commits_all"

\* C17: with --all the stop predicate is off.  The walk never stops on a
\* commit the store holds; every commit it is given is yielded and stored,
\* whether or not the store held it; and over pages that all answer 200 it
\* ends having yielded and stored every commit of the remote chain.
C17_AllDisablesStop ==
  /\ [](C17Case => /\ outcome # "stopped"
                   /\ Range(yielded) \ {0} \subseteq DOMAIN db.commits)
  /\ [](C17Case /\ AllOk => IsPrefix(yielded, Remote))
  /\ [](C17Case /\ AllOk /\ pc = "done"
         => yielded = Remote /\ Range(Remote) \subseteq DOMAIN db.commits)
  /\ (C17Case /\ AllOk ~> pc = "done")

C17_Witness ==
  /\ C17Case /\ AllOk /\ pc = "done"
  /\ Len(yielded) = MaxPages * MaxItems
  /\ start = {Remote[1], Remote[Len(Remote)]}
  /\ Cardinality(DOMAIN db.commits) = MaxPages * MaxItems

\* C18: a page that answers 204 is requested once, is not yielded, no page
\* after it is requested, and the walk ends there without an error
C18_NoContentEndsWalk ==
  \A u \in DOMAIN chain :
    chain[u].status = 204 =>
      /\ reqs[u] <= 1
      /\ data # u
      /\ \A v \in DOMAIN chain : v > u => reqs[v] = 0
      /\ reqs[u] = 1 => pc \in {"got", "done"}
      /\ reqs[u] = 1 /\ pc = "done" => outcome = "no_content" /\ url = u

C18_Witness ==
  /\ Len(chain) = MaxPages /\ chain[MaxPages].status = 204
  /\ reqs[MaxPages] = 1 /\ pc = "done" /\ outcome = "no_content"
  /\ mode = "paginate" /\ Len(yielded) = MaxPages - 1

\* =========================================================================
\* Properties of the normalizer and of the workflow decomposer
\* =========================================================================
PairOf(call) == WorkflowPairs[call.a]

DocOf(call) == WorkflowDocs[call.b]

\* The calls that ingest one raw entity
Entities ==
  {"save_user", "save_repo", "save_issues", "save_pull_requests", "save_commits",
   "save_releases", "save_workflow"}

\* The entity a call ingested has exactly one row (a keyed table holds one row
\* per key; workflows are counted by their pair)
RowStored(call, d) ==
  CASE call.op = "save_user" -> call.a = 0 \/ call.a \in DOMAIN d.users
    [] call.op = "save_repo" -> call.a \in DOMAIN d.repos
    [] call.op = "save_issues" -> call.a \in DOMAIN d.issues
    [] call.op = "save_pull_requests" -> call.a \in DOMAIN d.pull_requests
    [] call.op = "save_commits" -> call.a \in DOMAIN d.commits
    [] call.op = "save_releases" -> call.a \in DOMAIN d.releases
    [] call.op = "save_workflow" ->
         DocOf(call).kind = "mapping" =>
           Cardinality(existing_workflows(d, PairOf(call).repo, PairOf(call).filename)) = 1
    [] OTHER -> TRUE

Links(d, link_table, i) == {q[2] : q \in {r \in d[link_table] : r[1] = i}}

LabelIds(labels) == {labels[k].id : k \in DOMAIN labels}

\* One ingestion of a row carrying `labels`, into a store whose links of that
\* row (if any) are among those labels: afterwards the row has exactly one
\* link per label, and the labels table has gained the missing ones only.
LabelsStoredOnce(i, labels, link_table) ==
  /\ DOMAIN db'.labels = DOMAIN db.labels \cup LabelIds(labels)
  /\ Links(db, link_table, i) \subseteq LabelIds(labels) =>
       /\ Links(db', link_table, i) = LabelIds(labels)
       /\ Cardinality({r \in db'[link_table] : r[1] = i}) = Len(labels)

\* C4: ingesting an issue (or a pull request) with n distinct labels gives n
\* label rows and n link rows for it, and ingesting it again adds no label row
\* and no link row.
C4_LabelsManyToMany ==
  [][/\ last'.op = "save_issues" =>
          LabelsStoredOnce(last'.a, IssueP(last'.a, last'.b).labels, "issues_labels")
     /\ last'.op = "save_pull_requests" =>
          LabelsStoredOnce(last'.a, PullRequestP(last'.a, last'.b).labels,
                           "labels_pull_requests")
     /\ last' = last /\ last.op \in {"save_issues", "save_pull_requests"} =>
          /\ db'.labels = db.labels
          /\ db'.issues_labels = db.issues_labels
          /\ db'.labels_pull_requests = db.labels_pull_requests]_vars

C4_Witness ==
  /\ last = prev /\ last.op = "save_issues" /\ last.b = 3
  /\ Cardinality(DOMAIN db.labels) = 2
  /\ Cardinality(db.issues_labels) = 2

RECURSIVE Sorted(_)
\* The numbers of a set in increasing order
Sorted(S) ==
  IF S = {} THEN <<>>
  ELSE LET m == CHOOSE x \in S : \A y \in S : x <= y
       IN <<m>> \o Sorted(S \ {m})

\* The stored decomposition of a (repo, filename) pair: its jobs in insertion
\* order, each with its steps in insertion order
Decomposition(d, pair) ==
  LET ws == existing_workflows(d, pair.repo, pair.filename)
      js == Sorted({j \in DOMAIN d.jobs : d.jobs[j].workflow \in ws})
  IN [k \in DOMAIN js |->
        LET ts == Sorted({t \in DOMAIN d.steps : d.steps[t].job = js[k]})
        IN [name |-> d.jobs[js[k]].name, tag |-> d.jobs[js[k]].runs_on,
            seqs |-> [x \in DOMAIN ts |-> d.steps[ts[x]].seq],
            steps |-> [x \in DOMAIN ts |-> d.steps[ts[x]].run]]]

\* The decomposition a document asks for
Wanted(doc) ==
  [k \in DOMAIN doc.jobs |->
     [name |-> doc.jobs[k].name, tag |-> doc.jobs[k].tag,
      seqs |-> [x \in DOMAIN doc.jobs[k].steps |-> x],
      steps |-> doc.jobs[k].steps]]

\* The workflow row of a pair as the decomposer writes it (without its id)
WorkflowRows(d, pair) ==
  {d.workflows[w] : w \in existing_workflows(d, pair.repo, pair.filename)}

\* Every job belongs to a stored workflow and every step to a stored job
NoOrphans(d) ==
  /\ \A j \in DOMAIN d.jobs : d.jobs[j].workflow \in DOMAIN d.workflows
  /\ \A t \in DOMAIN d.steps : d.steps[t].job \in DOMAIN d.jobs

OtherPairs(pair) == {WorkflowPairs[q] : q \in DOMAIN WorkflowPairs} \ {pair}

\* C5: a save_workflow call for a pair that has a stored decomposition leaves,
\* when it returns, exactly the jobs and steps of the new document for the
\* pair (while it runs, only jobs of the new document: none of the previous
\* version), leaves no job or step without its parent, and leaves the workflow
\* rows, jobs and steps of the other pairs as they were.
C5_ReplaceOnReimport ==
  [][last'.op = "save_workflow" /\ DocOf(last').kind = "mapping"
       /\ existing_workflows(db, PairOf(last').repo, PairOf(last').filename) # {}
     => /\ ~last'.raised => Decomposition(db', PairOf(last')) = Wanted(DocOf(last'))
        /\ IsPrefix(Decomposition(db', PairOf(last')), Wanted(DocOf(last')))
        /\ NoOrphans(db')
        /\ \A q \in OtherPairs(PairOf(last')) :
             /\ Decomposition(db', q) = Decomposition(db, q)
             /\ WorkflowRows(db', q) = WorkflowRows(db, q)]_vars

C5_Witness ==
  /\ last.op = "save_workflow" /\ prev.op = "save_workflow"
  /\ last.a = prev.a /\ prev.b = 1 /\ last.b = 2 /\ ~last.raised
  /\ Cardinality(DOMAIN db.jobs) = 1 /\ Cardinality(DOMAIN db.steps) = 2

\* C6 as claimed: the replacement is atomic.  A call for a pair that has a
\* stored decomposition leaves the complete new one when it returns and the
\* complete prior one (workflow row, jobs and steps) when it raises.
C6_AtomicReplace ==
  [][last'.op = "save_workflow"
       /\ existing_workflows(db, PairOf(last').repo, PairOf(last').filename) # {}
     => IF last'.raised
        THEN /\ Decomposition(db', PairOf(last')) = Decomposition(db, PairOf(last'))
             /\ WorkflowRows(db', PairOf(last')) = WorkflowRows(db, PairOf(last'))
        ELSE Decomposition(db', PairOf(last')) = Wanted(DocOf(last'))]_vars

\* C7: the workflows table holds at most one row per (repo, filename) pair
C7_OneWorkflowPerFile ==
  \A w1, w2 \in DOMAIN db.workflows :
    db.workflows[w1].repo = db.workflows[w2].repo
      /\ db.workflows[w1].filename = db.workflows[w2].filename
    => w1 = w2

C7_Witness ==
  /\ ops = MaxOps
  /\ last.op = "save_workflow" /\ prev.op = "save_workflow"
  /\ last.a = prev.a /\ last.b # prev.b
  /\ DocOf(last).kind = "mapping" /\ DocOf(prev).kind = "mapping"
  /\ Cardinality(DOMAIN db.workflows) = 2
  /\ db.workflows_idx

\* C12 as claimed: after an entity is ingested the store reflects its newest
\* payload only.  An issue (pull request) is linked to the labels of the
\* payload just ingested and to no other; a release owns the assets of that
\* payload and no other; a user's row is the row that payload alone gives.
C12_ReflectsLatestPayload ==
  [][/\ last'.op = "save_issues" =>
          Links(db', "issues_labels", last'.a) = LabelIds(IssueP(last'.a, last'.b).labels)
     /\ last'.op = "save_pull_requests" =>
          Links(db', "labels_pull_requests", last'.a)
            = LabelIds(PullRequestP(last'.a, last'.b).labels)
     /\ last'.op = "save_releases" =>
          {k \in DOMAIN db'.assets : db'.assets[k].release = last'.a}
            = {ReleaseP(last'.a, last'.b).assets[k].id : k \in 1 .. last'.b}
     /\ last'.op = "save_user" /\ last'.a # 0 =>
          db'.users[last'.a]
            = save_user(EmptyDb, UserP(last'.a, last'.b)).db.users[last'.a]]_vars

\* The shape of the schema: tables, views, indexes, foreign keys, full-text
\* indexes
Shape(d) == [tables |-> table_names(d), shape |-> d.shape]

\* C13 as claimed: the second of two ensure_db_shape calls in a row changes
\* nothing
C13_EnsureTwiceIsNoOp ==
  [][last.op = "ensure_db_shape" /\ last'.op = "ensure_db_shape"
     => Shape(db') = Shape(db)]_vars

\* C14 as claimed: ensure_db_shape completes from every store the ingestion
\* can produce, and the four embedding tables exist afterwards
C14_EnsureCompletes ==
  last.op = "ensure_db_shape"
  => /\ ~last.raised
     /\ Range(EmbeddingTables) \subseteq table_names(db)

\* C15: after save_repo the row's owner is the id of a users row with the
\* payload's owner.login; its license is the key of a licenses row, the
\* payload's license.key; for a payload whose license is null the column is
\* null and the licenses table is as it was.
C15_RepoForeignKeys ==
  [][last'.op = "save_repo" =>
       LET repo == RepoP(last'.a, last'.b)
           row == db'.repos[repo.id]
       IN /\ row.owner \in DOMAIN db'.users
          /\ db'.users[row.owner].login = repo.owner.login
          /\ IF repo.license = LicenseNone
             THEN row.license = NoneS /\ db'.licenses = db.licenses
             ELSE /\ row.license = repo.license.key
                  /\ row.license \in DOMAIN db'.licenses]_vars

C15_Witness ==
  /\ last.op = "save_repo" /\ prev.op = "save_repo"
  /\ last.a = 1 /\ last.b = 1 /\ prev.a = 2 /\ prev.b = 2
  /\ db.repos[1].license = "mit" /\ db.repos[2].license = NoneS
  /\ DOMAIN db.licenses = {"mit"}
  /\ db.users[db.repos[1].owner].login = "octo"

\* The (name, email) pair of a raw_authors row or of a commit's raw metadata
NameEmail(r) == <<r.name, r.email>>

\* C16: raw_authors holds at most one row per (name, email) pair, every
\* stored commit references the rows of its raw author's and raw committer's
\* pairs, and so two commits whose raw metadata share a pair reference the
\* same row.
C16_RawAuthorDedup ==
  /\ \A r1, r2 \in DOMAIN db.raw_authors :
       NameEmail(db.raw_authors[r1]) = NameEmail(db.raw_authors[r2]) => r1 = r2
  /\ \A c \in DOMAIN db.commits :
       /\ db.commits[c].raw_author \in DOMAIN db.raw_authors
       /\ db.commits[c].raw_committer \in DOMAIN db.raw_authors
       /\ NameEmail(db.raw_authors[db.commits[c].raw_author])
            = NameEmail(CommitOf(c).commit.author)
       /\ NameEmail(db.raw_authors[db.commits[c].raw_committer])
            = NameEmail(CommitOf(c).commit.committer)
  /\ \A c1, c2 \in DOMAIN db.commits :
       /\ NameEmail(CommitOf(c1).commit.author) = NameEmail(CommitOf(c2).commit.author)
            => db.commits[c1].raw_author = db.commits[c2].raw_author
       /\ NameEmail(CommitOf(c1).commit.author) = NameEmail(CommitOf(c2).commit.committer)
            => db.commits[c1].raw_author = db.commits[c2].raw_committer

C16_Witness ==
  /\ last.op = "save_commits" /\ prev.op = "save_commits" /\ last.a # prev.a
  /\ Cardinality(DOMAIN db.commits) = 2
  /\ Cardinality(DOMAIN db.raw_authors) = 2
  /\ db.commits[1].raw_committer = db.commits[2].raw_author

\* C19: a dependents row, once inserted, is there for good with the
\* first_seen_utc it was given: the time of the call that inserted it.
C19_FirstSeenSetOnce ==
  [][/\ \A p \in DOMAIN db.dependents :
          p \in DOMAIN db'.dependents /\ db'.dependents[p] = db.dependents[p]
     /\ \A p \in DOMAIN db'.dependents \ DOMAIN db.dependents :
          db'.dependents[p].first_seen_utc = ops']_vars

C19_Witness ==
  /\ last.op = "scrape_dependents" /\ last = prev /\ ops = MaxOps
  /\ last.b = 3
  /\ \A p \in {<<last.a, 1>>, <<last.a, 2>>} :
       p \in DOMAIN db.dependents /\ db.dependents[p].first_seen_utc = ops - 1

\* The issue a comment's issue_url names, when such an issue is stored
ParentOf(d, c, n) ==
  {i \in DOMAIN d.issues :
     /\ d.issues[i].number = n
     /\ \E r \in DOMAIN d.repos :
          /\ d.issues[i].repo = r
          /\ d.repos[r].full_name = IF c = 1 THEN "octo/one" ELSE "hubot/two"}

\* C20 as claimed: save_issue_comment stores the comment, with the id of the
\* stored issue its issue_url names when there is exactly one, with null
\* otherwise, and never fails over a parent issue that is missing
C20_CommentIssueResolved ==
  [][last'.op = "save_issue_comment" =>
       LET found == ParentOf(db, last'.a, last'.b)
       IN /\ ~last'.raised
          /\ last'.a \in DOMAIN db'.issue_comments
          /\ db'.issue_comments[last'.a].issue
               = IF Cardinality(found) = 1 THEN CHOOSE i \in found : TRUE ELSE None
          /\ db'.issues = db.issues]_vars

\* C21 as claimed: after every ensure_db_shape call each view of VIEWS exists
\* exactly when all the tables it requires exist
C21_ViewsIffTables ==
  last.op = "ensure_db_shape"
  => \A v \in DOMAIN VIEWS :
       v \in db.shape.views <=> VIEWS[v] \subseteq table_names(db)

\* C26 as claimed: a workflow document that is empty or is not YAML is
\* skipped: save_workflow raises nothing and leaves the store as it was
C26_BadWorkflowSkipped ==
  [][last'.op = "save_workflow" /\ DocOf(last').kind # "mapping"
     => ~last'.raised /\ db' = db]_vars

\* C30 as claimed: after save_user the stored name is never null: it is the
\* payload's name, else the login; and a name stored before from a payload
\* that carried one is kept when the payload ingested now carries none
C30_NameKeptOverStub ==
  [][last'.op = "save_user" /\ last'.a # 0 =>
       LET user == UserP(last'.a, last'.b)
           row == db'.users[user.id]
       IN /\ row.name # NoneS
          /\ user.name \notin {Absent, NoneS} => row.name = user.name
          /\ /\ user.name \in {Absent, NoneS}
             /\ user.id \in DOMAIN db.users
             /\ db.users[user.id].name \notin {NoneS, user.login}
             => row.name = db.users[user.id].name]_vars

\* The page that lists the first commit already held
StopPage == ((Remote[FirstKnown] - 1) \div MaxItems) + 1

\* C28: once the stop predicate has answered true (the incremental run has
\* met its first known commit), no HTTP request is made any more: the walk is
\* over, every page behind the one that lists that commit has never been
\* requested, and the pages up to it have been requested once each (twice
\* when the first answer was a 503 that the transport retried).
C28_NoRequestAfterStop ==
  C2Case =>
    /\ \A u \in DOMAIN chain : u > StopPage => reqs[u] = 0
    /\ outcome = "stopped" =>
         /\ pc = "done"
         /\ \A u \in 1 .. StopPage : reqs[u] = IF chain[u].flaky THEN 2 ELSE 1

C28_Witness ==
  /\ C2Case /\ outcome = "stopped"
  /\ Len(chain) = MaxPages /\ \A u \in DOMAIN chain : chain[u].n = MaxItems
  /\ StopPage = 1 /\ FirstKnown = 2
  /\ reqs[1] = 1 /\ reqs[MaxPages] = 0 /\ Len(yielded) = 1

\* C24 as claimed: the chunks are the groups of exactly target_length
\* consecutive sentences, in order; a trailing group of fewer sentences is
\* dropped (7 sentences with target_length 3 give 2 chunks)
C24_ChunksOfExactlyN ==
  last.op = "chunk" =>
    chunks = [k \in 1 .. (Len(sentences) \div target_length) |->
                [content |-> SubSeq(sentences, (k - 1) * target_length + 1,
                                    k * target_length),
                 token_count |-> target_length]]

\* C22 as claimed: whenever _maybe_load_sqlite_vec has answered True for a
\* connection, the extension is loaded on that connection, however many
\* connections the process uses
C22_TrueMeansLoadedHere ==
  \A k \in DOMAIN answer : answer[k] => k[2] \in loaded

\* C23: a call of ensure_embedding_tables that finds the extension missing
\* (import sqlite_vec fails) or whose sqlite_vec.load fails does not raise:
\* _maybe_load_sqlite_vec answers False, and repo_embeddings and
\* readme_chunk_embeddings exist afterwards as plain tables (not vec0), as
\* they do after every call for which the answer is False.
C23_LoadFailureFallsBack ==
  [][last'.op = "ensure_embedding_tables" =>
       LET c == last'.a
           failed == SQLITE_VEC_LOADED = "None" /\ (~installed \/ c \notin loadable)
       IN /\ failed => SQLITE_VEC_LOADED' = "False"
          /\ SQLITE_VEC_LOADED' = "False" =>
               /\ ~last'.raised
               /\ <<"utils", c>> \in DOMAIN answer' /\ ~answer'[<<"utils", c>>]
               /\ {EmbeddingTables[1], EmbeddingTables[2]} \subseteq db'[c].shape.made
               /\ db'[c].shape.vec = {}]_vars

C23_Witness ==
  /\ last.op = "ensure_embedding_tables" /\ ~last.raised
  /\ installed /\ last.a \notin loadable /\ loadable # {}
  /\ SQLITE_VEC_LOADED = "False" /\ loaded = {}
  /\ prev.op = "save_repo" /\ prev.a = last.a
  /\ db[last.a].shape.made = Range(EmbeddingTables) /\ db[last.a].shape.vec = {}

\* Column col of every row of table holds NULL or a key of table `other`
Refers(d, table, col, other) ==
  \A r \in DOMAIN d[table] :
    d[table][r][col] = None \/ d[table][r][col] \in DOMAIN d[other]

ReferentialIntegrity(d) ==
  /\ \A c \in {"owner", "organization"} : Refers(d, "repos", c, "users")
  /\ \A r \in DOMAIN d.repos :
       d.repos[r].license = NoneS \/ d.repos[r].license \in DOMAIN d.licenses
  /\ Refers(d, "milestones", "creator", "users")
  /\ \A c \in {"user", "assignee"} : Refers(d, "issues", c, "users")
  /\ Refers(d, "issues", "milestone", "milestones")
  /\ \A c \in {"user", "assignee", "merged_by"} : Refers(d, "pull_requests", c, "users")
  /\ Refers(d, "pull_requests", "milestone", "milestones")
  /\ Refers(d, "issue_comments", "user", "users")
  /\ Refers(d, "issue_comments", "issue", "issues")
  /\ \A c \in {"author", "committer"} : Refers(d, "commits", c, "users")
  /\ \A r \in DOMAIN d.commits :
       {d.commits[r].raw_author, d.commits[r].raw_committer} \subseteq DOMAIN d.raw_authors
  /\ Refers(d, "releases", "author", "users")
  /\ Refers(d, "assets", "uploader", "users")
  /\ Refers(d, "assets", "release", "releases")
  /\ Refers(d, "jobs", "workflow", "workflows")
  /\ Refers(d, "steps", "job", "jobs")
  /\ \A t \in {"milestones", "issues", "pull_requests", "commits", "releases",
                 "workflows", "jobs", "steps"} : Refers(d, t, "repo", "repos")
  /\ \A p \in DOMAIN d.dependents : {p[1], p[2]} \subseteq DOMAIN d.repos

\* C25: after every command of any sequence of commands, whether it completed
\* or raised, every foreign-key column the normalizer wrote (repo, user,
\* owner, organization, license, assignee, milestone, creator, author,
\* committer, raw_author, raw_committer, merged_by, uploader, release, issue,
\* workflow, job) is null or holds the primary key of a row of the table it
\* references.
C25_ReferentialIntegrity == ReferentialIntegrity(db)

C25_Witness ==
  /\ ops = MaxOps /\ last.op = "releases" /\ last.b = 2 /\ prev.op = "issues"
  /\ 1 \in DOMAIN db.issues /\ db.issues[1].milestone = 1 /\ db.issues[1].repo = 2
  /\ db.milestones[1].creator = 2
  /\ 2 \in DOMAIN db.assets /\ db.assets[2].release = 1 /\ db.assets[2].uploader = 2
  /\ DOMAIN db.steps # {} /\ DOMAIN db.workflows # {}

\* C27 as claimed: a save_ function leaves the payload it was given as it
\* was, so that the same payload can be ingested again: the second call
\* does not fail and leaves the store as the first call left it
C27_PayloadUnchanged ==
  [][/\ original' = original
     /\ ~last'.raised
     /\ last.op = last'.op => db' = db]_vars

\* The store held, when the first run started, the older end of the history
\* (the remote sequence is newest first)
StartIsSuffix ==
  \E k \in 0 .. Len(Remote) : start = {Remote[i] : i \in k + 1 .. Len(Remote)}

\* C29 as claimed: when an incremental run has been interrupted with some
\* of the new commits stored, the next incremental run that runs to
\* completion stores the remaining ones: the store then holds every commit of
\* the remote history
C29_NextRunCompletes ==
  /\ AllOk /\ StartIsSuffix
  /\ run = 2 /\ pc = "done" /\ outcome \in {"stopped", "exhausted"}
  => Range(Remote) \subseteq DOMAIN db.commits

====
